---- MODULE Spec2Model ----
(***************************************************************************)
(* RequestsLauncher (metron/core/requests_launcher.py): a facade over a    *)
(* ray.util.ActorPool of AsyncRequestsManager actors.                      *)
(*                                                                         *)
(* The pool's bookkeeping is the ActorPool the launcher calls into         *)
(* (submit, has_free, has_next, get_next_unordered).  An actor is the      *)
(* Worker of the specification: a queue, a bounded set of requests in      *)
(* flight and a buffer of results.  Request configs are numbered in the    *)
(* order launch_requests is called: cfg k is the k-th submission.          *)
(***************************************************************************)
EXTENDS Integers, Sequences, FiniteSets, TLC

\* Bounds of the model.
MaxWorkers == 2      \* num_ray_clients is drawn from 1..MaxWorkers
MaxSubmits == 3      \* launch_requests is called at most MaxSubmits times
MaxConcurrent == 2   \* num_concurrent_requests_per_client is drawn from 1..MaxConcurrent

VARIABLES
    num_ray_clients,   \* constructor argument: the number of actors
    max_concurrent,    \* constructor argument: num_concurrent_requests_per_client
    multi,             \* TRUE iff a second coroutine shares the launcher
    pool,              \* self.llm_client_pool: the ActorPool's bookkeeping
    resolved,          \* task indices of the outstanding futures that are ready
    failed,            \* those of them that resolved to a failure
    actors,            \* self.actors: actor id -> state of the AsyncRequestsManager
    op,                \* the launcher method the driver is inside of ("none" between calls)
    pc,                \* the driver's position inside that method
    i,                 \* loop index of `for actor in self.actors`
    results,           \* the local list `results` of get_results
    ret,               \* what the last finished call returned
    submitted,         \* number of launch_requests calls so far
    dispatched,        \* history: cfgs in the order they were handed to an actor
    queued,            \* history: cfgs that were appended to _pending_submits
    reaped,            \* history: cfgs whose future get_next_unordered popped
    collected,         \* history: cfg -> how often get_results has returned its Result
    late,              \* history: cfgs submitted after complete_tasks was called
    finished,          \* history: actor id -> cfgs in the order they finished there
    entry,             \* history: bookkeeping at the call of the running free_pool
    completed          \* TRUE once complete_tasks has returned

vars == <<num_ray_clients, max_concurrent, multi, pool, resolved, failed, actors, op,
          pc, i, results, ret, submitted, dispatched, queued, reaped, collected, late,
          finished, entry, completed>>

driver == <<op, pc, i, results, ret>>
history == <<dispatched, queued, reaped, collected, late, finished, entry, completed>>
params == <<num_ray_clients, max_concurrent, multi>>

ActorIds == 1..num_ray_clients

Last(s) == s[Len(s)]
Front(s) == SubSeq(s, 1, Len(s) - 1)
Range(s) == {s[k] : k \in 1..Len(s)}

----------------------------------------------------------------------------
\* ActorPool, as the launcher uses it.

\* Mutant of Submit: a submission that finds no idle actor is dropped.
SubmitDropsWhenBusy(p, cfg) ==
    IF Len(p.idle_actors) > 0
    THEN [p EXCEPT !.idle_actors = Front(@),
                   !.future_to_actor = @ \cup {[idx |-> p.next_task_index,
                                                actor |-> Last(p.idle_actors),
                                                cfg |-> cfg]},
                   !.next_task_index = @ + 1]
    ELSE p

\* Mutant of Submit: the actor that takes the submission stays in the idle list.
SubmitKeepsIdle(p, cfg) ==
    IF Len(p.idle_actors) > 0
    THEN [p EXCEPT !.future_to_actor = @ \cup {[idx |-> p.next_task_index,
                                                actor |-> Last(p.idle_actors),
                                                cfg |-> cfg]},
                   !.next_task_index = @ + 1]
    ELSE [p EXCEPT !.pending_submits = Append(@, cfg)]

\* ActorPool.submit(fn, value): hand value to the last idle actor, or queue it.
Submit(p, cfg) ==
    IF Len(p.idle_actors) > 0
    THEN [p EXCEPT !.idle_actors = Front(@),
                   !.future_to_actor = @ \cup {[idx |-> p.next_task_index,
                                                actor |-> Last(p.idle_actors),
                                                cfg |-> cfg]},
                   !.next_task_index = @ + 1]
    ELSE [p EXCEPT !.pending_submits = Append(@, cfg)]

\* Mutant of HasFree: the idle list is not consulted.
HasFreeIgnoresIdle(p) == Len(p.pending_submits) = 0

\* ActorPool.has_free()
HasFree(p) == Len(p.idle_actors) > 0 /\ Len(p.pending_submits) = 0

\* Mutant of HasNext: the loop stops one future early.
HasNextButOne(p) == Cardinality(p.future_to_actor) > 1

\* ActorPool.has_next()
HasNext(p) == p.future_to_actor # {}

\* Mutant of ReturnActor: the pending submission is dispatched and not removed.
ReturnActorKeepsPending(p, a) ==
    LET q == [p EXCEPT !.idle_actors = Append(@, a)]
    IN  IF Len(q.pending_submits) > 0
        THEN Submit(q, Head(q.pending_submits))
        ELSE q

\* Mutant of ReturnActor: the newest pending submission is taken (pop() for pop(0)).
ReturnActorLifo(p, a) ==
    LET q == [p EXCEPT !.idle_actors = Append(@, a)]
    IN  IF Len(q.pending_submits) > 0
        THEN Submit([q EXCEPT !.pending_submits = Front(@)], Last(q.pending_submits))
        ELSE q

\* Mutant of ReturnActor: the actor is idle again and the pending queue is left alone.
ReturnActorOnlyIdles(p, a) == [p EXCEPT !.idle_actors = Append(@, a)]

\* ActorPool._return_actor(actor): the actor is idle again and takes the oldest
\* pending submission, if there is one.
ReturnActor(p, a) ==
    LET q == [p EXCEPT !.idle_actors = Append(@, a)]
    IN  IF Len(q.pending_submits) > 0
        THEN Submit([q EXCEPT !.pending_submits = Tail(@)], Head(q.pending_submits))
        ELSE q

\* Mutant of GetNextUnordered: the reaped future stays in _future_to_actor.
GetNextKeepsFuture(p, f) == ReturnActor(p, f.actor)

\* Mutant of GetNextUnordered: the actor of the reaped future is not returned.
GetNextForgetsActor(p, f) == [p EXCEPT !.future_to_actor = @ \ {f}]

\* ActorPool.get_next_unordered(), once ray.wait has returned the ready future f.
GetNextUnordered(p, f) ==
    ReturnActor([p EXCEPT !.future_to_actor = @ \ {f}], f.actor)

\* The futures ray.wait can return: the outstanding ones that are ready.
Ready == {f \in pool.future_to_actor : f.idx \in resolved}

\* What a pool step adds to the histories.
NewFutures(p, q) == q.future_to_actor \ p.future_to_actor
LogDispatch(p, q) ==
    IF NewFutures(p, q) = {} THEN dispatched
    ELSE Append(dispatched, (CHOOSE f \in NewFutures(p, q) : TRUE).cfg)
LogQueued(p, q, cfg) ==
    IF Len(q.pending_submits) > Len(p.pending_submits) THEN queued \cup {cfg} ELSE queued

----------------------------------------------------------------------------
\* The state after RequestsLauncher.__init__.

NewActor == [queue |-> <<>>, active |-> {}, results |-> <<>>, running |-> FALSE]

Construct ==
    /\ num_ray_clients \in 1..MaxWorkers
    /\ max_concurrent \in 1..MaxConcurrent
    /\ pool = [idle_actors |-> [k \in 1..num_ray_clients |-> k],
               future_to_actor |-> {},
               pending_submits |-> <<>>,
               next_task_index |-> 0]
    /\ resolved = {}
    /\ failed = {}
    /\ actors = [a \in 1..num_ray_clients |-> NewActor]
    /\ op = "none"
    /\ pc = "new"
    /\ i = 0
    /\ results = <<>>
    /\ ret = [op |-> "none"]
    /\ submitted = 0
    /\ dispatched = <<>>
    /\ queued = {}
    /\ reaped = {}
    /\ collected = [cfg \in 1..MaxSubmits |-> 0]
    /\ late = {}
    /\ finished = [a \in 1..num_ray_clients |-> <<>>]
    /\ entry = [op |-> "none"]
    /\ completed = FALSE

\* The launcher shared by the driver and a second coroutine.
Init == Construct /\ multi = TRUE

\* The launcher used by a single driver.
InitSingle == Construct /\ multi = FALSE

----------------------------------------------------------------------------
\* AsyncRequestsManager, the Worker of the specification.

\* launch_requests.remote(cfg) runs at the actor: cfg is enqueued and the
\* future of the dispatch resolves.
ActorLaunch(f) ==
    /\ f \in pool.future_to_actor
    /\ f.idx \notin resolved
    /\ actors' = [actors EXCEPT ![f.actor].queue = Append(@, f.cfg)]
    /\ resolved' = resolved \cup {f.idx}
    /\ UNCHANGED <<params, pool, failed, driver, submitted, history>>

\* launch_requests.remote(cfg) fails at the actor: the future of the dispatch
\* resolves to a failure and cfg is not enqueued.
ActorFail(f) ==
    /\ f \in pool.future_to_actor
    /\ f.idx \notin resolved
    /\ resolved' = resolved \cup {f.idx}
    /\ failed' = failed \cup {f.idx}
    /\ UNCHANGED <<params, pool, actors, driver, submitted, history>>

\* Mutant of ActorLimit: the actor is given the total concurrency.
ActorLimitTotal(a) == max_concurrent * num_ray_clients

\* max_concurrent_requests=num_concurrent_requests_per_client, for every actor.
ActorLimit(a) == max_concurrent

\* The task loop admits the oldest queued request while a slot is free.
ActorAdmit(a) ==
    /\ actors[a].running
    /\ actors[a].queue # <<>>
    /\ Cardinality(actors[a].active) < ActorLimit(a)
    /\ actors' = [actors EXCEPT ![a].queue = Tail(@),
                                ![a].active = @ \cup {Head(actors[a].queue)}]
    /\ UNCHANGED <<params, pool, resolved, failed, driver, submitted, history>>

\* A request in flight finishes; its Result is appended to the buffer.
ActorFinish(a, cfg) ==
    /\ cfg \in actors[a].active
    /\ actors' = [actors EXCEPT ![a].active = @ \ {cfg},
                                ![a].results = Append(@, cfg)]
    /\ finished' = [finished EXCEPT ![a] = Append(@, cfg)]
    /\ UNCHANGED <<params, pool, resolved, failed, driver, submitted, dispatched,
                   queued, reaped, collected, late, entry, completed>>

\* complete_tasks at the actor returns once nothing is queued or in flight.
Quiescent(a) == actors[a].queue = <<>> /\ actors[a].active = {}

----------------------------------------------------------------------------
\* RequestsLauncher

\* Where a coroutine other than the driver can run: between the driver's
\* calls and, when there is one, at the awaits inside them.
AwaitPoints == {"sleep", "ct_await", "gr_await"}
LaunchPoints == IF multi THEN {"ready"} \cup AwaitPoints ELSE {"ready"}

NoEntry == [op |-> "none"]
Snapshot(block) ==
    [op |-> "free_pool", block |-> block, pool |-> pool, ready |-> Ready]

start ==
    /\ pc = "new"
    /\ actors' = [a \in ActorIds |-> [actors[a] EXCEPT !.running = TRUE]]
    /\ pc' = "ready"
    /\ ret' = [op |-> "start"]
    /\ UNCHANGED <<params, pool, resolved, failed, op, i, results, submitted, history>>

launch_requests ==
    /\ pc \in LaunchPoints
    /\ ~completed
    /\ submitted < MaxSubmits
    /\ LET cfg == submitted + 1
           q == Submit(pool, cfg)
       IN  /\ pool' = q
           /\ submitted' = cfg
           /\ dispatched' = LogDispatch(pool, q)
           /\ queued' = LogQueued(pool, q, cfg)
           /\ late' = IF op = "complete_tasks" THEN late \cup {cfg} ELSE late
    /\ ret' = [op |-> "launch_requests"]
    /\ entry' = IF pc = "ready" THEN NoEntry ELSE entry
    /\ UNCHANGED <<params, resolved, failed, actors, op, pc, i, results, reaped, collected,
                   finished, completed>>

is_free ==
    /\ pc = "ready"
    /\ ret' = [op |-> "is_free", val |-> HasFree(pool)]
    /\ entry' = NoEntry
    /\ UNCHANGED <<params, pool, resolved, failed, actors, op, pc, i, results, submitted,
                   dispatched, queued, reaped, collected, late, finished, completed>>

\* free_pool(block): the call, up to the first loop test.
free_pool(block) ==
    /\ pc = "ready"
    /\ ~completed
    /\ op' = "free_pool"
    /\ pc' = IF block THEN "poll" ELSE "reap"
    /\ entry' = Snapshot(block)
    /\ ret' = [op |-> "none"]
    /\ UNCHANGED <<params, pool, resolved, failed, actors, i, results, submitted, dispatched,
                   queued, reaped, collected, late, finished, completed>>

\* Mutant of Poll: the polling loop reaps a ready future while it waits.
PollReaps ==
    /\ pc = "poll"
    /\ pc' = IF Len(pool.pending_submits) > 0 THEN "sleep" ELSE "reap"
    /\ IF Len(pool.pending_submits) > 0 /\ Ready # {}
       THEN LET f == CHOOSE g \in Ready : TRUE
                q == GetNextUnordered(pool, f)
            IN  /\ pool' = q
                /\ dispatched' = LogDispatch(pool, q)
                /\ resolved' = resolved \ {f.idx}
       ELSE UNCHANGED <<pool, dispatched, resolved>>
    /\ UNCHANGED <<params, failed, actors, op, i, results, ret, submitted, queued,
                   reaped, collected, late, finished, entry, completed>>

\* while len(self.llm_client_pool._pending_submits) > 0: await asyncio.sleep(0.1)
Poll ==
    /\ pc = "poll"
    /\ pc' = IF Len(pool.pending_submits) > 0 THEN "sleep" ELSE "reap"
    /\ UNCHANGED <<params, pool, resolved, failed, actors, op, i, results, ret, submitted,
                   history>>

Wake ==
    /\ pc = "sleep"
    /\ pc' = "poll"
    /\ UNCHANGED <<params, pool, resolved, failed, actors, op, i, results, ret, submitted,
                   history>>

\* One turn of `while has_next(): get_next_unordered()`: ray.wait blocks the
\* thread until some outstanding future is ready.  get_next_unordered pops the
\* future and returns its actor to the pool, then ray.get raises if the future
\* resolved to a failure: the exception leaves free_pool and its caller.
Reap(f) ==
    /\ pc = "reap"
    /\ HasNext(pool)
    /\ f \in Ready
    /\ LET q == GetNextUnordered(pool, f)
       IN  /\ pool' = q
           /\ dispatched' = LogDispatch(pool, q)
    /\ resolved' = resolved \ {f.idx}
    /\ failed' = failed \ {f.idx}
    /\ reaped' = reaped \cup {f.cfg}
    /\ IF f.idx \in failed
       THEN /\ pc' = "ready"
            /\ op' = "none"
            /\ ret' = [op |-> "raised", in |-> op]
       ELSE UNCHANGED <<op, pc, ret>>
    /\ UNCHANGED <<params, actors, i, results, submitted, queued, collected, late,
                   finished, entry, completed>>

\* has_next() is false: free_pool returns, to the driver or into complete_tasks.
FreePoolReturn ==
    /\ pc = "reap"
    /\ ~HasNext(pool)
    /\ ret' = [op |-> "free_pool"]
    /\ IF op = "complete_tasks"
       THEN /\ pc' = "ct_await"
            /\ i' = 1
            /\ op' = op
       ELSE /\ pc' = "ready"
            /\ i' = i
            /\ op' = "none"
    /\ UNCHANGED <<params, pool, resolved, failed, actors, results, submitted, history>>

\* Mutant of complete_tasks: the blocking drain is skipped.
CompleteTasksSkipsDrain ==
    /\ pc = "ready"
    /\ ~completed
    /\ op' = "complete_tasks"
    /\ pc' = "ct_await"
    /\ i' = 1
    /\ entry' = Snapshot(TRUE)
    /\ ret' = [op |-> "none"]
    /\ UNCHANGED <<params, pool, resolved, failed, actors, results, submitted,
                   dispatched, queued, reaped, collected, late, finished, completed>>

complete_tasks ==
    /\ pc = "ready"
    /\ ~completed
    /\ op' = "complete_tasks"
    /\ pc' = "poll"
    /\ entry' = Snapshot(TRUE)
    /\ ret' = [op |-> "none"]
    /\ UNCHANGED <<params, pool, resolved, failed, actors, i, results, submitted, dispatched,
                   queued, reaped, collected, late, finished, completed>>

\* await actor.complete_tasks.remote() for the i-th actor.
CompleteActor ==
    /\ pc = "ct_await"
    /\ Quiescent(i)
    /\ actors' = [actors EXCEPT ![i].running = FALSE]
    /\ IF i = num_ray_clients
       THEN /\ pc' = "ready"
            /\ op' = "none"
            /\ i' = 0
            /\ completed' = TRUE
            /\ ret' = [op |-> "complete_tasks"]
       ELSE /\ i' = i + 1
            /\ UNCHANGED <<pc, op, completed, ret>>
    /\ UNCHANGED <<params, pool, resolved, failed, results, submitted, dispatched, queued,
                   reaped, collected, late, finished, entry>>

Count(s, cfg) == Cardinality({k \in 1..Len(s) : s[k] = cfg})

get_results ==
    /\ pc = "ready"
    /\ op' = "get_results"
    /\ pc' = "gr_await"
    /\ i' = 1
    /\ results' = <<>>
    /\ ret' = [op |-> "none"]
    /\ entry' = [op |-> "get_results", again |-> completed /\ ret.op = "get_results"]
    /\ UNCHANGED <<params, pool, resolved, failed, actors, submitted, dispatched, queued,
                   reaped, collected, late, finished, completed>>

\* Mutant of CollectActor: an actor's results are put in front (insert for extend).
CollectActorPrepends ==
    /\ pc = "gr_await"
    /\ actors' = [actors EXCEPT ![i].results = <<>>]
    /\ LET out == actors[i].results \o results
       IN  IF i = num_ray_clients
           THEN /\ pc' = "ready"
                /\ op' = "none"
                /\ i' = 0
                /\ results' = <<>>
                /\ ret' = [op |-> "get_results", val |-> out]
                /\ collected' = [cfg \in 1..MaxSubmits |->
                                    collected[cfg] + Count(out, cfg)]
           ELSE /\ i' = i + 1
                /\ results' = out
                /\ UNCHANGED <<pc, op, ret, collected>>
    /\ UNCHANGED <<params, pool, resolved, failed, submitted, dispatched, queued,
                   reaped, late, finished, entry, completed>>

\* Mutant of CollectActor: an actor's results replace the list (= for extend).
CollectActorOverwrites ==
    /\ pc = "gr_await"
    /\ actors' = [actors EXCEPT ![i].results = <<>>]
    /\ LET out == actors[i].results
       IN  IF i = num_ray_clients
           THEN /\ pc' = "ready"
                /\ op' = "none"
                /\ i' = 0
                /\ results' = <<>>
                /\ ret' = [op |-> "get_results", val |-> out]
                /\ collected' = [cfg \in 1..MaxSubmits |->
                                    collected[cfg] + Count(out, cfg)]
           ELSE /\ i' = i + 1
                /\ results' = out
                /\ UNCHANGED <<pc, op, ret, collected>>
    /\ UNCHANGED <<params, pool, resolved, failed, submitted, dispatched, queued,
                   reaped, late, finished, entry, completed>>

\* results.extend(await actor.get_results.remote()) for the i-th actor.
CollectActor ==
    /\ pc = "gr_await"
    /\ actors' = [actors EXCEPT ![i].results = <<>>]
    /\ LET out == results \o actors[i].results
       IN  IF i = num_ray_clients
           THEN /\ pc' = "ready"
                /\ op' = "none"
                /\ i' = 0
                /\ results' = <<>>
                /\ ret' = [op |-> "get_results", val |-> out]
                /\ collected' = [cfg \in 1..MaxSubmits |->
                                    collected[cfg] + Count(out, cfg)]
           ELSE /\ i' = i + 1
                /\ results' = out
                /\ UNCHANGED <<pc, op, ret, collected>>
    /\ UNCHANGED <<params, pool, resolved, failed, submitted, dispatched, queued, reaped,
                   late, finished, entry, completed>>

Next ==
    \/ start
    \/ launch_requests
    \/ is_free
    \/ \E block \in BOOLEAN : free_pool(block)
    \/ Poll
    \/ Wake
    \/ \E f \in pool.future_to_actor : Reap(f)
    \/ FreePoolReturn
    \/ complete_tasks
    \/ CompleteActor
    \/ get_results
    \/ CollectActor
    \/ \E f \in pool.future_to_actor : ActorLaunch(f)
    \/ \E a \in ActorIds : ActorAdmit(a)
    \/ \E a \in ActorIds, cfg \in 1..MaxSubmits : ActorFinish(a, cfg)

Spec == Init /\ [][Next]_vars

\* A single driver.  The actors are processes of their own and every call the
\* driver is inside of keeps running: each step of either that stays enabled is
\* eventually taken.
ActorStep ==
    \/ \E f \in pool.future_to_actor : ActorLaunch(f)
    \/ \E a \in ActorIds : ActorAdmit(a)
    \/ \E a \in ActorIds, cfg \in 1..MaxSubmits : ActorFinish(a, cfg)

DriverStep ==
    \/ Poll
    \/ Wake
    \/ \E f \in pool.future_to_actor : Reap(f)
    \/ FreePoolReturn
    \/ CompleteActor
    \/ CollectActor

SingleSpec ==
    InitSingle /\ [][Next]_vars /\ WF_vars(ActorStep) /\ WF_vars(DriverStep)

\* A single driver, with dispatches that can fail at the actor.
FaultNext ==
    \/ Next
    \/ \E f \in pool.future_to_actor : ActorFail(f)

FaultSpec == InitSingle /\ [][FaultNext]_vars

----------------------------------------------------------------------------
\* Vocabulary of the properties.

Submitted == 1..submitted
Outstanding(cfg) == {f \in pool.future_to_actor : f.cfg = cfg}
HeldBy(a) == {f \in pool.future_to_actor : f.actor = a}
Buffered(cfg) ==
    LET n[a \in 0..num_ray_clients] ==
            IF a = 0 THEN 0 ELSE n[a - 1] + Count(actors[a].results, cfg)
    IN  n[num_ray_clients]
\* Results of cfg that exist: buffered at an actor, or taken out by get_results.
Produced(cfg) == Buffered(cfg) + Count(results, cfg) + collected[cfg]
\* free_pool(block) has returned and nothing was submitted since.
Returned(block) ==
    ret.op = "free_pool" /\ entry.op = "free_pool" /\ entry.block = block
\* The driver is blocked in ray.wait: futures are outstanding and none is ready.
Waiting == pc = "reap" /\ HasNext(pool) /\ Ready = {}

----------------------------------------------------------------------------
\* C1: a single driver calls launch_requests any number of times back-to-back
\* and then complete_tasks(); every dispatched request completes at its actor;
\* then complete_tasks() eventually returns.
C1_CompleteTasksReturns == (op = "complete_tasks") ~> completed

\* C2, as claimed: once complete_tasks() has returned, every submission has
\* exactly one Result in some actor's result buffer.
C2_NoLossInBuffers ==
    completed => \A cfg \in Submitted : Buffered(cfg) = 1

\* C2, amended: once complete_tasks() has returned, every submission made before
\* complete_tasks() was called was dispatched exactly once and has exactly one
\* Result, which is in an actor's buffer or was taken out by get_results.
C2_NoLoss ==
    completed =>
        \A cfg \in Submitted \ late :
            /\ Count(dispatched, cfg) = 1
            /\ Produced(cfg) = 1

C2_Witness ==
    /\ completed
    /\ pc = "ready"
    /\ queued \ late # {}
    /\ \E cfg \in Submitted : collected[cfg] = 1
    /\ \E cfg \in Submitted : Buffered(cfg) = 1

\* C3: whenever free_pool(block=True) returns, nothing is pending and no future
\* is outstanding: every submission made so far was dispatched and reaped.
C3_BlockingDrainIsComplete ==
    Returned(TRUE) =>
        /\ Len(pool.pending_submits) = 0
        /\ pool.future_to_actor = {}
        /\ \A cfg \in Submitted : cfg \in Range(dispatched) /\ cfg \in reaped

C3_Witness ==
    /\ Returned(TRUE)
    /\ entry.pool.future_to_actor # {}
    /\ entry.ready # entry.pool.future_to_actor
    /\ queued # {}

\* C4: free_pool(block=False) never waits for a future that is still in
\* progress.
C4_NonBlockingNeverWaits ==
    ~(op = "free_pool" /\ entry.op = "free_pool" /\ ~entry.block /\ Waiting)

\* C5: Scenario C, 2 actors and 3 submissions (2 outstanding, 1 pending):
\* free_pool(block=False) called before any future is ready returns with the
\* bookkeeping unchanged; called after some are ready, it returns with exactly
\* those reaped, the others still outstanding.
ScenarioC ==
    /\ num_ray_clients = 2
    /\ submitted = 3
    /\ Cardinality(entry.pool.future_to_actor) = 2
    /\ Len(entry.pool.pending_submits) = 1
C5_ScenarioC ==
    (Returned(FALSE) /\ ScenarioC) =>
        /\ entry.ready = {} => pool = entry.pool
        /\ (entry.pool.future_to_actor \ entry.ready) \subseteq pool.future_to_actor

\* C6: is_free() is true iff some actor has no outstanding dispatch, in every
\* state and for every value is_free() has returned.
SomeActorFree == \E a \in ActorIds : HeldBy(a) = {}
C6_IsFreeIffActorFree ==
    /\ HasFree(pool) <=> SomeActorFree
    /\ ret.op = "is_free" => (ret.val <=> SomeActorFree)

C6_Witness ==
    /\ ret.op = "is_free"
    /\ ~ret.val
    /\ Len(pool.pending_submits) > 0
    /\ reaped # {}

\* C7: Scenario B, one actor: is_free() is false from launch_requests(X) until
\* X's dispatch is reaped, whether or not X's future is ready; once free_pool
\* has returned, is_free() is true.
C7_ScenarioB ==
    num_ray_clients = 1 =>
        /\ \A x \in Submitted \ reaped : ~HasFree(pool)
        /\ ret.op = "is_free" /\ Submitted \ reaped # {} => ~ret.val
        /\ ret.op = "free_pool" => HasFree(pool)

C7_Witness ==
    /\ num_ray_clients = 1
    /\ ret.op = "is_free"
    /\ ~ret.val
    /\ Ready # {}
    /\ Len(pool.pending_submits) = 0
    /\ reaped # {}

\* C8: every submission is pending, outstanding or reaped, and in exactly one
\* of the three; submitted = pending + outstanding + reaped.
InPending(cfg) == Count(pool.pending_submits, cfg)
C8_ExactlyOnePlace ==
    /\ \A cfg \in Submitted :
          InPending(cfg) + Cardinality(Outstanding(cfg))
              + (IF cfg \in reaped THEN 1 ELSE 0) = 1
    /\ submitted = Len(pool.pending_submits) + Cardinality(pool.future_to_actor)
                       + Cardinality(reaped)

C8_Witness ==
    /\ Len(pool.pending_submits) > 0
    /\ pool.future_to_actor # {}
    /\ reaped # {}
    /\ submitted = MaxSubmits

\* C9: launch_requests hands cfg to an idle actor when there is one and appends
\* it to the pending queue otherwise; every actor is idle or holds exactly one
\* outstanding future, never both; at most one future per actor is outstanding.
OneRolePerActor ==
    /\ \A a \in ActorIds :
          Count(pool.idle_actors, a) + Cardinality(HeldBy(a)) = 1
    /\ Cardinality(pool.future_to_actor) <= num_ray_clients
LaunchStep ==
    submitted' = submitted + 1 =>
        IF Len(pool.idle_actors) > 0
        THEN /\ \E f \in pool.future_to_actor' \ pool.future_to_actor :
                    /\ f.cfg = submitted'
                    /\ f.actor \in Range(pool.idle_actors)
             /\ pool.pending_submits' = pool.pending_submits
        ELSE /\ pool.pending_submits' = Append(pool.pending_submits, submitted')
             /\ pool.future_to_actor' = pool.future_to_actor
C9_IdleOrOneFuture == []OneRolePerActor /\ [][LaunchStep]_vars

C9_Witness ==
    /\ ret.op = "launch_requests"
    /\ num_ray_clients > 1
    /\ Cardinality(pool.future_to_actor) = num_ray_clients
    /\ Len(pool.idle_actors) = 0
    /\ Len(pool.pending_submits) > 0

\* C10: pending submissions are dispatched in the order they were submitted:
\* when a queued cfg is handed to an actor, every queued cfg submitted before it
\* was handed to an actor earlier.
C10_PendingIsFifo ==
    \A k \in 1..Len(dispatched) :
        dispatched[k] \in queued =>
            \A c \in queued :
                c < dispatched[k] => \E j \in 1..(k - 1) : dispatched[j] = c

C10_Witness ==
    \E j, k \in 1..Len(dispatched) :
        /\ j < k
        /\ dispatched[j] \in queued
        /\ dispatched[k] \in queued

----------------------------------------------------------------------------
Quiet == Len(pool.pending_submits) = 0 /\ pool.future_to_actor = {}

\* C11, as claimed: whenever complete_tasks() returns, is_free() is true and
\* nothing is pending or outstanding, also when another coroutine called
\* launch_requests while complete_tasks was suspended.
C11_QuiescentOnReturn ==
    ret.op = "complete_tasks" => HasFree(pool) /\ Quiet

\* C11, amended: whenever complete_tasks() returns and launch_requests was not
\* called while it ran, is_free() is true and nothing is pending or outstanding.
C11_QuiescentOnReturnUndisturbed ==
    (ret.op = "complete_tasks" /\ late = {}) => HasFree(pool) /\ Quiet

C11_Witness ==
    /\ ret.op = "complete_tasks"
    /\ late = {}
    /\ entry.pool.future_to_actor # {}
    /\ entry.ready # entry.pool.future_to_actor
    /\ submitted = MaxSubmits

\* C12: when a dispatched future resolves to a failure, complete_tasks() is over
\* only with the pool quiescent and complete_tasks invoked on every actor.
CompleteTasksOver ==
    \/ ret.op = "complete_tasks"
    \/ ret.op = "raised" /\ ret.in = "complete_tasks"
C12_QuiescentDespiteFailure ==
    CompleteTasksOver =>
        /\ Quiet
        /\ \A a \in ActorIds : ~actors[a].running

\* C13: with a single driver, a call of free_pool(block=False) leads to a state
\* with nothing outstanding or pending in which is_free() is true, and a call
\* made in such a state returns with the bookkeeping unchanged.
NonBlockingRunning == op = "free_pool" /\ ~entry.block
Drained == Returned(FALSE) /\ Quiet /\ HasFree(pool)
RepeatedDrainIsNoOp ==
    (Returned(FALSE) /\ Len(entry.pool.pending_submits) = 0
                     /\ entry.pool.future_to_actor = {}) => pool = entry.pool
C13_IdempotentDrain == (NonBlockingRunning ~> Drained) /\ []RepeatedDrainIsNoOp

C13_Witness ==
    /\ Returned(FALSE)
    /\ Len(entry.pool.pending_submits) = 0
    /\ entry.pool.future_to_actor = {}
    /\ queued # {}
    /\ reaped = Submitted
    /\ submitted = MaxSubmits

\* The actor a request finished at, and its place in that actor's completion order.
FinishedAt(cfg) == CHOOSE a \in ActorIds : cfg \in Range(finished[a])
FinishedAs(cfg) ==
    CHOOSE k \in 1..Len(finished[FinishedAt(cfg)]) : finished[FinishedAt(cfg)][k] = cfg

\* C14: get_results() returns the actors' buffered results actor by actor in the
\* order of self.actors, those of one actor in the order they finished there.
C14_ResultsInActorOrder ==
    ret.op = "get_results" =>
        \A j, k \in 1..Len(ret.val) :
            j < k =>
                /\ \E a \in ActorIds : ret.val[j] \in Range(finished[a])
                /\ FinishedAt(ret.val[j]) <= FinishedAt(ret.val[k])
                /\ FinishedAt(ret.val[j]) = FinishedAt(ret.val[k])
                       => FinishedAs(ret.val[j]) < FinishedAs(ret.val[k])

C14_Witness ==
    /\ ret.op = "get_results"
    /\ Len(ret.val) = 3
    /\ FinishedAt(ret.val[1]) = 1
    /\ FinishedAt(ret.val[2]) = 1
    /\ FinishedAt(ret.val[3]) = 2
    /\ ret.val[1] > ret.val[2]

\* C15: after complete_tasks() has returned, a get_results() call leaves no
\* Result behind and a second call in succession returns the empty list; no
\* Result is ever returned twice.
C15_CollectedOnce ==
    /\ \A cfg \in 1..MaxSubmits : collected[cfg] <= 1
    /\ (completed /\ ret.op = "get_results") =>
          /\ \A cfg \in Submitted : Buffered(cfg) = 0
          /\ \A cfg \in Submitted \ late : collected[cfg] = 1
          /\ entry.again => ret.val = <<>>

C15_Witness ==
    /\ completed
    /\ ret.op = "get_results"
    /\ entry.again
    /\ num_ray_clients > 1
    /\ \A cfg \in 1..MaxSubmits : collected[cfg] = 1
    /\ \A a \in ActorIds : finished[a] # <<>>

\* Where a request that reached an actor is: queued there, in flight or finished.
Sum(g) ==
    LET n[a \in 0..num_ray_clients] == IF a = 0 THEN 0 ELSE n[a - 1] + g[a]
    IN  n[num_ray_clients]
AtActors(cfg) ==
    Sum([a \in ActorIds |-> Count(actors[a].queue, cfg)
                              + (IF cfg \in actors[a].active THEN 1 ELSE 0)
                              + Count(finished[a], cfg)])
Accepted(cfg) ==
    \/ cfg \in reaped
    \/ \E f \in Outstanding(cfg) : f.idx \in resolved

\* C16: at every actor the requests in flight never exceed
\* num_concurrent_requests_per_client; a request that reached an actor is queued,
\* in flight or finished there, exactly once.
C16_Capacity ==
    /\ \A a \in ActorIds : Cardinality(actors[a].active) <= max_concurrent
    /\ \A cfg \in Submitted : AtActors(cfg) = (IF Accepted(cfg) THEN 1 ELSE 0)

C16_Witness ==
    \E a \in ActorIds :
        /\ max_concurrent > 1
        /\ Cardinality(actors[a].active) = max_concurrent
        /\ actors[a].queue # <<>>
        /\ actors[a].running

\* complete_tasks.remote() is issued to the next actor: the actor loop is
\* entered, or moves on to its next actor.
Told == pc' = "ct_await" /\ (pc # "ct_await" \/ i' # i)
Stops(a) == actors[a].running /\ ~actors'[a].running
StopsInOrder ==
    \A a \in ActorIds :
        Stops(a) =>
            /\ pc = "ct_await"
            /\ a = i
            /\ \A b \in ActorIds : (b < a => ~actors[b].running)
                                   /\ (b > a => actors'[b].running)
AllStopped == \A a \in ActorIds : ~actors[a].running

\* C17, as claimed: an actor is told to complete only with nothing pending or
\* outstanding in the pool, and the actors complete once each in the order of
\* self.actors.
C17_CompleteAfterDrain ==
    [][(Told => Quiet') /\ StopsInOrder]_vars /\ [](completed => AllStopped)

\* C17, amended: the same, as long as launch_requests was not called while
\* complete_tasks ran.
C17_CompleteAfterDrainUndisturbed ==
    [][((Told /\ late' = {}) => Quiet') /\ StopsInOrder]_vars
        /\ [](completed => AllStopped)

C17_Witness ==
    /\ pc = "ct_await"
    /\ i = 2
    /\ late = {}
    /\ ~actors[1].running
    /\ actors[2].running
    /\ reaped # {}
    /\ finished[1] # <<>>

\* A step of launch_requests, and a step that reaps one future in free_pool.
Launches == submitted' = submitted + 1
Reaps ==
    /\ pc = "reap"
    /\ Cardinality(pool.future_to_actor \ pool'.future_to_actor) = 1

\* C18: the pool's bookkeeping changes only in launch_requests and in the reap
\* steps of free_pool; the pending queue shrinks only in a reap step, by one
\* submission for the one future reaped.
C18_BookkeepingFrame ==
    [][/\ pool' # pool => (Launches \/ Reaps)
       /\ Len(pool'.pending_submits) < Len(pool.pending_submits) =>
              /\ Reaps
              /\ Len(pool'.pending_submits) = Len(pool.pending_submits) - 1]_vars

C18_Witness ==
    /\ ret.op = "get_results"
    /\ Len(ret.val) > 0
    /\ queued \cap Range(dispatched) # {}
    /\ pool.future_to_actor # {}

\* C19: between launcher operations a pending submission implies that no
\* actor is idle.
C19_PendingImpliesNoIdle ==
    Len(pool.pending_submits) > 0 => Len(pool.idle_actors) = 0

C19_Witness ==
    /\ Len(pool.pending_submits) > 0
    /\ reaped # {}
    /\ pc = "reap"

====
